---- MODULE Spec2Model ----
(***************************************************************************)
(* Model of src/Main.py, the Coupa invoice downloader (a Streamlit script). *)
(*                                                                         *)
(* A Streamlit script is re-executed top to bottom on every user           *)
(* interaction; only st.session_state (token, zip_buffer) survives from    *)
(* one execution to the next.  pc is the position of the running script:   *)
(*   "connect"     the auto-connect block          (lines 90-114)          *)
(*   "upload"      the CSV upload block            (lines 124-148)         *)
(*   "loop"        the fetch loop                  (lines 150-212)         *)
(*   "zipsection"  the ZIP download button block   (lines 228-240)         *)
(*   "rerun"       st.rerun()                      (line 241)              *)
(*   "normalize"   NormSpec only: the id normalization on its own          *)
(*   "idle"        the script has ended or stopped; the page waits for     *)
(*                 the next interaction                                    *)
(* Strings whose characters matter (invoice ids) are sequences of          *)
(* one-character strings.                                                  *)
(***************************************************************************)
EXTENDS Integers, Sequences, FiniteSets

VARIABLES
    env,            \* which of IDENTIFIER, SECRET, COUPA_INSTANCE are set (lines 14-16)
    alertNeedsBody, \* whether st.info()/st.success() called without a body raise TypeError
    token,          \* st.session_state.token
    zip_buffer,     \* st.session_state.zip_buffer
    uploaded_file,  \* value of the st.file_uploader widget
    clicked,        \* the button whose click triggered the running script execution
    rendered,       \* buttons rendered so far by the running/last script execution
    pc,             \* position of the script
    invoice_ids,    \* local invoice_ids (line 143)
    i,              \* loop index (line 162)
    zip_file,       \* entries written to the archive being built (line 158)
    failed_rows,    \* local failed_rows (line 152)
    progress,       \* numerator last passed to progress.progress (line 212)
    gets,           \* requests.get calls of the running script execution, in order
    posts,          \* number of requests.post calls to the token endpoint in the session
    superseded,     \* a fetch run was started after zip_buffer was last stored
    response,       \* last response of the token endpoint
    normIn,         \* NormSpec: the raw invoice id
    normOut         \* NormSpec: <<result>> once the normalization ran, <<>> before

vars == <<env, alertNeedsBody, token, zip_buffer, uploaded_file, clicked, rendered, pc,
          invoice_ids, i, zip_file, failed_rows, progress, gets, posts, superseded, response,
          normIn, normOut>>

session == <<token, zip_buffer, posts, superseded, response>>
locals == <<invoice_ids, i, zip_file, failed_rows, progress, gets>>
fixed == <<env, alertNeedsBody, normIn, normOut>>

\* ---------------------------------------------------------------- bounds
MaxRows == 3    \* rows of an uploaded CSV
MaxPosts == 3   \* token requests followed within one session
MaxLen == 3     \* characters of an invoice id given to the normalization alone

\* ---------------------------------------------------------------- values
None == "None"
EmptyStr == ""

\* Python truthiness of a session value: None and "" are falsy (lines 90, 107, 147).
Truthy(x) == x \notin {None, EmptyStr}

\* The values response.json().get("access_token") can have on a 2xx response:
\* the field absent, an empty string, a bearer token.
AccessTokens == {None, EmptyStr, "tok"}

Digits == {"0", "1", "7"}
Whitespace == {" "}

\* ---------------------------------------------------------------- strings
RECURSIVE LStrip(_)
LStrip(s) == IF s # <<>> /\ Head(s) \in Whitespace THEN LStrip(Tail(s)) ELSE s

RECURSIVE RStrip(_)
RStrip(s) ==
    IF s # <<>> /\ s[Len(s)] \in Whitespace THEN RStrip(SubSeq(s, 1, Len(s) - 1)) ELSE s

\* str.strip()
Strip(s) == RStrip(LStrip(s))

\* str.split(".")[0]: everything before the first "."
RECURSIVE SplitDotFirst(_)
SplitDotFirst(s) ==
    IF s = <<>> \/ Head(s) = "." THEN <<>> ELSE <<Head(s)>> \o SplitDotFirst(Tail(s))

\* str(invoice_id).strip().split(".")[0]   (lines 163-164)
NormalizeId(s) == SplitDotFirst(Strip(s))

\* ---------------------------------------------------------------- the CSV
\* The cells an "invoice id" column is built from.
c7 == <<"7">>
c70 == <<"7", ".", "0">>
cA == <<"A">>
RawCells == {c7, c70, cA}

IsInt(s) == s # <<>> /\ \A k \in 1..Len(s) : s[k] \in Digits

IsFloat(s) ==
    \E d \in 1..Len(s) :
        /\ s[d] = "."
        /\ IsInt(SubSeq(s, 1, d - 1))
        /\ IsInt(SubSeq(s, d + 1, Len(s)))

\* pd.read_csv infers int64 for a column of integers, float64 for a column of
\* numbers with at least one decimal point, and keeps the text otherwise;
\* astype(str) then prints an int64 n as "n" and a float64 as "n.f" (line 143).
\* (The cells of RawCells that are floats are already in the form str prints.)
AsTypeStr(col) ==
    IF \A r \in 1..Len(col) : IsInt(col[r]) THEN col
    ELSE IF \A r \in 1..Len(col) : IsInt(col[r]) \/ IsFloat(col[r])
         THEN [r \in 1..Len(col) |-> IF IsInt(col[r]) THEN col[r] \o <<".", "0">> ELSE col[r]]
         ELSE col

\* Series.unique().tolist(): the distinct values in order of first appearance.
RECURSIVE Unique(_)
Unique(s) ==
    IF s = <<>> THEN <<>>
    ELSE LET rest == Unique(SubSeq(s, 1, Len(s) - 1))
             last == s[Len(s)]
         IN  IF \E k \in 1..Len(rest) : rest[k] = last THEN rest ELSE Append(rest, last)

Expected == {"invoice id", "invoice #", "supplier", "created date"}

\* The column maps of the uploaded files (line 130-135): all four columns
\* found, one of the optional three missing, or "invoice id" missing.
ColumnMaps == {Expected} \cup {Expected \ {k} : k \in Expected}

RECURSIVE SeqsUpTo(_, _)
SeqsUpTo(S, n) ==
    IF n = 0 THEN {<<>>}
    ELSE LET shorter == SeqsUpTo(S, n - 1)
         IN  shorter \cup {Append(s, x) : s \in {t \in shorter : Len(t) = n - 1}, x \in S}

\* An uploaded file: valid says whether decode and pd.read_csv succeed, col is
\* the raw "invoice id" column, column_mapping the keys of the column map.
\* NoFile is the uploader's value None.
NoFile == [present |-> FALSE, valid |-> FALSE, col |-> <<>>, column_mapping |-> {}]

Files ==
    {[present |-> TRUE, valid |-> FALSE, col |-> <<>>, column_mapping |-> {}]}
    \cup {[present |-> TRUE, valid |-> TRUE, col |-> <<>>,
           column_mapping |-> Expected \ {"invoice id"}]}
    \cup {[present |-> TRUE, valid |-> TRUE, col |-> c, column_mapping |-> m] :
            c \in SeqsUpTo(RawCells, MaxRows),
            m \in {cm \in ColumnMaps : "invoice id" \in cm}}

\* st.session_state.zip_buffer is None (NoBuffer), or the BytesIO a fetch run
\* stored, with the number of entries written to it.
NoBuffer == [stored |-> FALSE, entries |-> 0]

\* df[column_mapping["invoice id"]].astype(str) of the uploaded file
IdColumn == AsTypeStr(uploaded_file.col)

\* df[df[...].astype(str) == invoice_id]   (lines 166-167): the matching rows
Matching(id) == {r \in 1..Len(IdColumn) : IdColumn[r] = id}

\* .iloc[0] of a non-empty selection
FirstRow(id) == CHOOSE r \in Matching(id) : \A q \in Matching(id) : r <= q

\* ---------------------------------------------------------------- Init
NoResponse == [status |-> "none", access_token |-> None]

Init ==
    /\ env \in [{"IDENTIFIER", "SECRET", "COUPA_INSTANCE"} -> BOOLEAN]
    /\ alertNeedsBody \in BOOLEAN
    /\ token = None
    /\ zip_buffer = NoBuffer
    /\ uploaded_file = NoFile
    /\ clicked = "none"
    /\ rendered = {}
    /\ pc = "connect"
    /\ invoice_ids = <<>>
    /\ i = 0
    /\ zip_file = <<>>
    /\ failed_rows = <<>>
    /\ progress = 0
    /\ gets = <<>>
    /\ posts = 0
    /\ superseded = FALSE
    /\ response = NoResponse
    /\ normIn = <<>>
    /\ normOut = <<>>

\* The locals of a script execution that has not reached the fetch loop.
NoLocals ==
    /\ invoice_ids' = <<>>
    /\ i' = 0
    /\ zip_file' = <<>>
    /\ failed_rows' = <<>>
    /\ progress' = 0
    /\ gets' = <<>>

\* ---------------------------------------------------------------- auto-connect
ConfigPresent == env["IDENTIFIER"] /\ env["SECRET"] /\ env["COUPA_INSTANCE"]

\* line 90: the block is skipped when the session holds a token
ConnectSkip ==
    /\ pc = "connect"
    /\ Truthy(token)
    /\ pc' = "upload"
    /\ UNCHANGED <<session, uploaded_file, clicked, rendered, locals, fixed>>

\* lines 92-93
ConnectMissingCredentials ==
    /\ pc = "connect"
    /\ ~Truthy(token)
    /\ ~ConfigPresent
    /\ pc' = "upload"
    /\ UNCHANGED <<session, uploaded_file, clicked, rendered, locals, fixed>>

\* line 95: st.info() is called without its body argument; where that raises
\* TypeError the except of line 113 catches it and no request is made.
ConnectInfoRaises ==
    /\ pc = "connect"
    /\ ~Truthy(token)
    /\ ConfigPresent
    /\ alertNeedsBody
    /\ pc' = "upload"
    /\ UNCHANGED <<session, uploaded_file, clicked, rendered, locals, fixed>>

\* A mutant of ConnectPost: the request is made whether or not a token is held.
ConnectPost_Always ==
    /\ pc = "connect"
    /\ ConfigPresent
    /\ ~alertNeedsBody
    /\ posts < MaxPosts
    /\ posts' = posts + 1
    /\ \E r \in {[status |-> "2xx", access_token |-> a] : a \in AccessTokens} :
        /\ response' = r
        /\ token' = IF Truthy(r.access_token) THEN r.access_token ELSE token
    /\ pc' = "upload"
    /\ UNCHANGED <<zip_buffer, superseded, uploaded_file, clicked, rendered, locals, fixed>>

\* lines 96-114: the token request.  raise_for_status (line 104) and a
\* transport error of requests.post both end in the except of line 113.
ConnectPost ==
    /\ pc = "connect"
    /\ ~Truthy(token)
    /\ ConfigPresent
    /\ ~alertNeedsBody
    /\ posts < MaxPosts
    /\ posts' = posts + 1
    /\ \E r \in {[status |-> "2xx", access_token |-> a] : a \in AccessTokens}
                \cup {[status |-> s, access_token |-> None] : s \in {"401", "ConnectionError"}} :
        /\ response' = r
        /\ token' = IF r.status = "2xx" /\ Truthy(r.access_token)
                    THEN r.access_token ELSE token
    /\ pc' = "upload"
    /\ UNCHANGED <<zip_buffer, superseded, uploaded_file, clicked, rendered, locals, fixed>>

\* ---------------------------------------------------------------- CSV upload
\* The except of lines 222-224: a warning, then st.stop() ends the script.
OuterExcept ==
    /\ pc' = "idle"
    /\ NoLocals
    /\ UNCHANGED <<session, uploaded_file, clicked, rendered, fixed>>

\* line 124: no file uploaded
UploadNone ==
    /\ pc = "upload"
    /\ ~uploaded_file.present
    /\ pc' = "zipsection"
    /\ UNCHANGED <<session, uploaded_file, clicked, rendered, locals, fixed>>

\* lines 126-128 raise: the file is not UTF-8 or not delimited text
UploadParseError ==
    /\ pc = "upload"
    /\ uploaded_file.present
    /\ ~uploaded_file.valid
    /\ OuterExcept

\* lines 140-141
UploadColumnMissing ==
    /\ pc = "upload"
    /\ uploaded_file.present
    /\ uploaded_file.valid
    /\ "invoice id" \notin uploaded_file.column_mapping
    /\ pc' = "zipsection"
    /\ UNCHANGED <<session, uploaded_file, clicked, rendered, locals, fixed>>

HasIdColumn ==
    /\ uploaded_file.present
    /\ uploaded_file.valid
    /\ "invoice id" \in uploaded_file.column_mapping

\* lines 143-146: the button is rendered and was not clicked
ButtonNotClicked ==
    /\ pc = "upload"
    /\ HasIdColumn
    /\ clicked # "download_all"
    /\ rendered' = rendered \cup {"download_all"}
    /\ invoice_ids' = Unique(IdColumn)
    /\ pc' = "zipsection"
    /\ UNCHANGED <<session, uploaded_file, clicked, i, zip_file, failed_rows, progress, gets,
                   fixed>>

\* lines 147-148: clicked while the session holds no token
ButtonNoToken ==
    /\ pc = "upload"
    /\ HasIdColumn
    /\ clicked = "download_all"
    /\ ~Truthy(token)
    /\ rendered' = rendered \cup {"download_all"}
    /\ invoice_ids' = Unique(IdColumn)
    /\ pc' = "zipsection"
    /\ UNCHANGED <<session, uploaded_file, clicked, i, zip_file, failed_rows, progress, gets,
                   fixed>>

\* A mutant of StartRun: the token guard of line 147 is missing.
StartRun_NoTokenGuard ==
    /\ pc = "upload"
    /\ HasIdColumn
    /\ clicked = "download_all"
    /\ superseded' = zip_buffer.stored
    /\ rendered' = rendered \cup {"download_all"}
    /\ invoice_ids' = Unique(IdColumn)
    /\ i' = 0
    /\ zip_file' = <<>>
    /\ failed_rows' = <<>>
    /\ progress' = 0
    /\ gets' = <<>>
    /\ pc' = "loop"
    /\ UNCHANGED <<token, zip_buffer, posts, response, uploaded_file, clicked, fixed>>

\* lines 149-160: a fetch run starts with a fresh archive and failure list
StartRun ==
    /\ pc = "upload"
    /\ HasIdColumn
    /\ clicked = "download_all"
    /\ Truthy(token)
    /\ superseded' = zip_buffer.stored
    /\ rendered' = rendered \cup {"download_all"}
    /\ invoice_ids' = Unique(IdColumn)
    /\ i' = 0
    /\ zip_file' = <<>>
    /\ failed_rows' = <<>>
    /\ progress' = 0
    /\ gets' = <<>>
    /\ pc' = "loop"
    /\ UNCHANGED <<token, zip_buffer, posts, response, uploaded_file, clicked, fixed>>

\* ---------------------------------------------------------------- fetch loop
InLoop == pc = "loop" /\ i < Len(invoice_ids)

\* invoice_id after lines 163-164
invoice_id == NormalizeId(invoice_ids[i + 1])

\* The statuses other than 200 a scan request is answered with.
FailStatuses == {"404"}

\* lines 166-167: no row of the column equals the normalized id, .iloc[0]
\* raises IndexError, which the except of line 222 catches
LoopLookupFails ==
    /\ InLoop
    /\ Matching(invoice_id) = {}
    /\ OuterExcept

\* lines 169-174: a logical column absent from column_mapping raises KeyError,
\* which the except of line 222 catches
LoopKeyError ==
    /\ InLoop
    /\ Matching(invoice_id) # {}
    /\ ~({"invoice #", "supplier", "created date"} \subseteq uploaded_file.column_mapping)
    /\ OuterExcept

\* The iteration reaches requests.get (line 184).
CanFetch ==
    /\ InLoop
    /\ Matching(invoice_id) # {}
    /\ {"invoice #", "supplier", "created date"} \subseteq uploaded_file.column_mapping

\* line 212, and the next iteration
NextIteration ==
    /\ progress' = i + 1
    /\ i' = i + 1
    /\ pc' = "loop"
    /\ UNCHANGED <<session, uploaded_file, clicked, rendered, invoice_ids, fixed>>

\* lines 187-191: status 200, the scan is written under the row's filename
FetchOk ==
    /\ CanFetch
    /\ gets' = Append(gets, [id |-> invoice_id, status |-> "200"])
    /\ zip_file' = Append(zip_file, FirstRow(invoice_id))
    /\ UNCHANGED failed_rows
    /\ NextIteration

\* st.text_area(key=f"response_{invoice_id}") (lines 197-202) raises when an
\* earlier iteration of this execution created the widget with the same key.
DuplicateKey(id) ==
    \E k \in 1..Len(gets) : gets[k].id = id /\ gets[k].status \in FailStatuses

\* lines 192-206: another status.  The failure record is appended unless
\* st.text_area raised, which the except of line 208 catches.
FetchFailed ==
    /\ CanFetch
    /\ \E s \in FailStatuses :
        /\ gets' = Append(gets, [id |-> invoice_id, status |-> s])
        /\ failed_rows' =
              IF DuplicateKey(invoice_id) THEN failed_rows
              ELSE Append(failed_rows, [row |-> FirstRow(invoice_id), DownloadStatus |-> s])
    /\ UNCHANGED zip_file
    /\ NextIteration

\* A mutant of FetchTransportError: the exception is not caught inside the
\* loop and reaches the except of line 222.
FetchTransportError_Aborts ==
    /\ CanFetch
    /\ pc' = "idle"
    /\ gets' = Append(gets, [id |-> invoice_id, status |-> "ConnectionError"])
    /\ UNCHANGED <<session, uploaded_file, clicked, rendered, fixed>>
    /\ UNCHANGED <<invoice_ids, i, zip_file, failed_rows, progress>>

\* lines 208-210: requests.get raises; st.error only, nothing is recorded
FetchTransportError ==
    /\ CanFetch
    /\ gets' = Append(gets, [id |-> invoice_id, status |-> "ConnectionError"])
    /\ UNCHANGED <<zip_file, failed_rows>>
    /\ NextIteration

\* lines 214-220: the loop is over; the archive is rewound and stored
Finalize ==
    /\ pc = "loop"
    /\ i = Len(invoice_ids)
    /\ zip_buffer' = [stored |-> TRUE, entries |-> Len(zip_file)]
    /\ superseded' = FALSE
    /\ pc' = "zipsection"
    /\ UNCHANGED <<token, posts, response, uploaded_file, clicked, rendered, locals, fixed>>

\* ---------------------------------------------------------------- ZIP download
\* line 228: nothing stored, the section is not rendered; the script ends
ZipNone ==
    /\ pc = "zipsection"
    /\ zip_buffer = NoBuffer
    /\ pc' = "idle"
    /\ NoLocals
    /\ UNCHANGED <<session, uploaded_file, clicked, rendered, fixed>>

\* lines 229-238: the download button is rendered and was not clicked
ZipRender ==
    /\ pc = "zipsection"
    /\ zip_buffer # NoBuffer
    /\ clicked # "download_zip"
    /\ rendered' = rendered \cup {"download_zip"}
    /\ pc' = "idle"
    /\ NoLocals
    /\ UNCHANGED <<session, uploaded_file, clicked, fixed>>

\* A mutant of ZipClicked: line 239 is missing.
ZipClicked_KeepsBuffer ==
    /\ pc = "zipsection"
    /\ zip_buffer # NoBuffer
    /\ clicked = "download_zip"
    /\ rendered' = rendered \cup {"download_zip"}
    /\ pc' = "rerun"
    /\ UNCHANGED <<session, uploaded_file, clicked, locals, fixed>>

\* lines 233-240: the download button was clicked; the reference is cleared
ZipClicked ==
    /\ pc = "zipsection"
    /\ zip_buffer # NoBuffer
    /\ clicked = "download_zip"
    /\ zip_buffer' = NoBuffer
    /\ superseded' = FALSE
    /\ rendered' = rendered \cup {"download_zip"}
    /\ pc' = "rerun"
    /\ UNCHANGED <<token, posts, response, uploaded_file, clicked, locals, fixed>>

\* line 241: st.rerun() starts the script again with no button clicked
StRerun ==
    /\ pc = "rerun"
    /\ clicked' = "none"
    /\ rendered' = {}
    /\ pc' = "connect"
    /\ NoLocals
    /\ UNCHANGED <<session, uploaded_file, fixed>>

\* ---------------------------------------------------------------- the user
\* Every interaction starts the script again from the top.
Rerun ==
    /\ pc = "idle"
    /\ rendered' = {}
    /\ pc' = "connect"
    /\ UNCHANGED <<session, locals, fixed>>

\* line 120: a file is put in the uploader
UploadFile ==
    /\ \E f \in Files : uploaded_file' = f
    /\ clicked' = "none"
    /\ Rerun

\* line 120: the file is removed from the uploader
RemoveFile ==
    /\ uploaded_file.present
    /\ uploaded_file' = NoFile
    /\ clicked' = "none"
    /\ Rerun

\* line 146: the button was on the page and is clicked
ClickDownloadAll ==
    /\ "download_all" \in rendered
    /\ clicked' = "download_all"
    /\ UNCHANGED uploaded_file
    /\ Rerun

\* line 233: the button was on the page and is clicked
ClickDownloadZip ==
    /\ "download_zip" \in rendered
    /\ clicked' = "download_zip"
    /\ UNCHANGED uploaded_file
    /\ Rerun

\* ---------------------------------------------------------------- specification
Next ==
    \/ ConnectSkip
    \/ ConnectMissingCredentials
    \/ ConnectInfoRaises
    \/ ConnectPost
    \/ UploadNone
    \/ UploadParseError
    \/ UploadColumnMissing
    \/ ButtonNotClicked
    \/ ButtonNoToken
    \/ StartRun
    \/ LoopLookupFails
    \/ LoopKeyError
    \/ FetchOk
    \/ FetchFailed
    \/ FetchTransportError
    \/ Finalize
    \/ ZipNone
    \/ ZipRender
    \/ ZipClicked
    \/ StRerun
    \/ UploadFile
    \/ RemoveFile
    \/ ClickDownloadAll
    \/ ClickDownloadZip

Spec == Init /\ [][Next]_vars

\* ---------------------------------------------------------------- NormSpec
\* The id normalization of lines 163-164 applied to every short string over
\* IdChars.
IdChars == {"7", "0", ".", " ", "A"}

InitNorm ==
    /\ env = [k \in {"IDENTIFIER", "SECRET", "COUPA_INSTANCE"} |-> TRUE]
    /\ alertNeedsBody = FALSE
    /\ token = None
    /\ zip_buffer = NoBuffer
    /\ uploaded_file = NoFile
    /\ clicked = "none"
    /\ rendered = {}
    /\ pc = "normalize"
    /\ invoice_ids = <<>>
    /\ i = 0
    /\ zip_file = <<>>
    /\ failed_rows = <<>>
    /\ progress = 0
    /\ gets = <<>>
    /\ posts = 0
    /\ superseded = FALSE
    /\ response = NoResponse
    /\ normIn \in SeqsUpTo(IdChars, MaxLen)
    /\ normOut = <<>>

NormalizeStep ==
    /\ pc = "normalize"
    /\ normOut = <<>>
    /\ normOut' = <<NormalizeId(normIn)>>
    /\ UNCHANGED <<env, alertNeedsBody, session, uploaded_file, clicked, rendered, pc, locals,
                   normIn>>

NextNorm == NormalizeStep

NormSpec == InitNorm /\ [][NextNorm]_vars

\* ================================================================ claims

Failed(k) == gets[k].status # "200"

\* ---------------------------------------------------------------- C1
\* C1: in the fetch loop every id whose fetch failed (a status other than 200
\* or an exception of the GET) has added no archive entry and exactly one
\* failure record: the failure records are as many as the failed fetches, the
\* archive entries as many as the fetches answered 200.
C1_FailedFetchRecordedOnce ==
    pc = "loop" =>
        /\ Len(failed_rows) = Cardinality({k \in 1..Len(gets) : Failed(k)})
        /\ Len(zip_file) = Cardinality({k \in 1..Len(gets) : ~Failed(k)})

\* ---------------------------------------------------------------- C2
\* C2: a failed fetch never aborts the loop.  Every step that issues a GET,
\* whatever its outcome, goes on to the next iteration with the progress
\* advanced by one, and when the loop hands over to finalization a GET was
\* issued for every id of the unique id list, in order, and the progress
\* stands at len(invoice_ids).
C2_FailedFetchNeverAborts ==
    [][ /\ Len(gets') > Len(gets) =>
              /\ pc' = "loop"
              /\ i' = i + 1
              /\ progress' = i + 1
        /\ (pc = "loop" /\ pc' = "zipsection") =>
              /\ Len(gets) = Len(invoice_ids)
              /\ \A k \in 1..Len(gets) : gets[k].id = NormalizeId(invoice_ids[k])
              /\ progress = Len(invoice_ids)
      ]_vars

\* A finalized run of at least two ids in which a fetch before the last failed.
C2_Witness ==
    /\ pc = "zipsection"
    /\ zip_buffer.stored
    /\ Len(gets) >= 2
    /\ \E k \in 1..(Len(gets) - 1) : Failed(k)

\* ---------------------------------------------------------------- C3
\* C3: within one run at most one GET is issued per normalized invoice id.
C3_OneGetPerNormalizedId ==
    \A j, k \in 1..Len(gets) : j # k => gets[j].id # gets[k].id

\* ---------------------------------------------------------------- C4
\* C4: while the session holds no token, no GET has been issued, the fetch
\* loop is not running, and no archive is being built or stored.
C4_NoGetWithoutToken ==
    ~Truthy(token) =>
        /\ gets = <<>>
        /\ pc # "loop"
        /\ zip_file = <<>>
        /\ ~zip_buffer.stored

\* The download-all button was clicked on a file with ids to fetch, after a
\* token request that stored no token, and the click has been handled.
C4_Witness ==
    /\ pc = "zipsection"
    /\ clicked = "download_all"
    /\ ~Truthy(token)
    /\ posts > 0
    /\ Len(invoice_ids) > 0

\* ---------------------------------------------------------------- C5
\* C5: a started fetch run (CSV parsed, "invoice id" resolved, token held)
\* always reaches finalization: from inside the loop the script only moves to
\* the next iteration or to finalization, never to the stop of line 224.
C5_StartedRunReachesFinalization ==
    [][pc = "loop" => pc' \in {"loop", "zipsection"}]_vars

\* ---------------------------------------------------------------- C6
\* The last "." of s, or 0.
LastDot(s) ==
    IF \E d \in 1..Len(s) : s[d] = "."
    THEN CHOOSE d \in 1..Len(s) : s[d] = "." /\ \A e \in (d + 1)..Len(s) : s[e] # "."
    ELSE 0

\* s ends in "." followed only by zero digits (none included)
EndsInZeroFraction(s) ==
    /\ LastDot(s) > 0
    /\ \A k \in (LastDot(s) + 1)..Len(s) : s[k] = "0"

\* s is an integer followed by "." and one or more zero digits, as "12345.0"
IsIntegerAsFloat(s) ==
    /\ EndsInZeroFraction(s)
    /\ LastDot(s) < Len(s)
    /\ IsInt(SubSeq(s, 1, LastDot(s) - 1))

\* C6: the normalization trims the id and drops the fractional suffix only
\* when the id ends in "." followed by all-zero digits: an integer printed as
\* a float loses its ".0", and every id that does not end in "." followed by
\* all-zero digits is returned unchanged apart from the trimming.
C6_DropsOnlyZeroFraction ==
    normOut # <<>> =>
        LET t == Strip(normIn)
        IN  /\ IsIntegerAsFloat(t) => normOut[1] = SubSeq(t, 1, LastDot(t) - 1)
            /\ ~EndsInZeroFraction(t) => normOut[1] = t

C8_NewRunDiscardsPreviousArchive ==
    (pc = "idle" /\ "download_zip" \in rendered) => ~superseded

\* ---------------------------------------------------------------- C9
\* C9: the archive is exposed once.  A click on the download button is always
\* handled by clearing session_state.zip_buffer (the execution it triggers is
\* never stopped before the download block), a cleared zip_buffer is set
\* again only by the finalization of a fetch run, and the page offers the
\* download only while zip_buffer holds an archive.
C9_ArchiveExposedOnce ==
    [][ /\ (clicked = "download_zip" /\ pc \in {"connect", "upload"}) =>
              pc' \in {"upload", "zipsection"}
        /\ (clicked = "download_zip" /\ pc = "zipsection") =>
              (pc' = "rerun" /\ zip_buffer' = NoBuffer)
        /\ pc' = "rerun" => zip_buffer' = NoBuffer
        /\ (~zip_buffer.stored /\ zip_buffer'.stored) =>
              (pc = "loop" /\ i = Len(invoice_ids) /\ pc' = "zipsection")
        /\ (pc' = "idle" /\ "download_zip" \in rendered') => zip_buffer'.stored
      ]_vars

\* Line 239 has just run: the click was handled and the reference is cleared.
C9_Witness ==
    /\ pc = "rerun"
    /\ clicked = "download_zip"
    /\ zip_buffer = NoBuffer

\* ---------------------------------------------------------------- C10
\* C10: with no token held and all three config values present the
\* auto-connect step issues the token POST; a 2xx response carrying an
\* access_token field makes that access_token the session token, which then
\* stays for the rest of the session.
C10_AutoConnectStoresToken ==
    [][ /\ (pc = "connect" /\ ~Truthy(token) /\ ConfigPresent) =>
              /\ posts' = posts + 1
              /\ (response'.status = "2xx" /\ response'.access_token # None) =>
                    token' = response'.access_token
        /\ Truthy(token) => token' = token
      ]_vars

====
